---- MODULE Spec2Model ----
(***************************************************************************)
(* Model of spaghetti.py: the outlier-resistant mean (robust_mean), the    *)
(* 51-year historical baseline (get_past), the baseline cache and the      *)
(* per-variable ensemble mean of get_series, and the page loop of          *)
(* generate_forecast_pages / __main__.                                     *)
(*                                                                         *)
(* Numbers are exact rationals [num, den] with den > 0; NaN is the record  *)
(* with den = 0.  Floating-point rounding is not modelled.  Chart and HTML *)
(* construction (plotly figures, files) is not modelled.                   *)
(***************************************************************************)
EXTENDS Integers, Sequences, FiniteSets, TLC

\* ------------------------------------------------------------------ bounds
MaxLen == 4          \* longest enumerated input of robust_mean
MaxVal == 3          \* enumerated sample values are -1..MaxVal
MaxAxisLen == 2      \* longest forecast timestamp axis
NumSources == 1      \* model sources carried by a forecast document
NumFields == 2       \* forecast variables processed per page

\* ------------------------------------------------------- program constants
FirstYear == 1974
EndYear == 2025
NumLocations == 3
PAST_MEAN_LABEL == "MEDIA 50 ANNI"
serie_names_it == <<"Temperatura", "Precipitazioni", "Prob. Prec.", "CAPE">>

\* ------------------------------------------------------------- arithmetic
NaN == [num |-> 0, den |-> 0]

IsNaN(x) == x.den = 0

Abs(n) == IF n < 0 THEN -n ELSE n

RECURSIVE GCD(_, _)
GCD(a, b) == IF b = 0 THEN a ELSE GCD(b, a % b)

\* the rational n/d (d > 0) in lowest terms
Frac(n, d) ==
    LET g == GCD(Abs(n), d)
    IN  [num |-> n \div g, den |-> d \div g]

IntVal(k) == [num |-> k, den |-> 1]

FAdd(a, b) ==
    IF IsNaN(a) \/ IsNaN(b) THEN NaN
    ELSE Frac(a.num * b.den + b.num * a.den, a.den * b.den)

FSub(a, b) ==
    IF IsNaN(a) \/ IsNaN(b) THEN NaN
    ELSE Frac(a.num * b.den - b.num * a.den, a.den * b.den)

FMul(a, b) ==
    IF IsNaN(a) \/ IsNaN(b) THEN NaN
    ELSE Frac(a.num * b.num, a.den * b.den)

\* a <= b; every comparison with NaN is false
FLeq(a, b) ==
    /\ ~IsNaN(a)
    /\ ~IsNaN(b)
    /\ a.num * b.den <= b.num * a.den

HasNaN(vals) == \E i \in 1..Len(vals) : IsNaN(vals[i])

\* Series.dropna(): the non-missing entries, in order
dropna(vals) == SelectSeq(vals, LAMBDA v : ~IsNaN(v))

RECURSIVE Insert(_, _)
Insert(v, s) ==
    IF s = <<>> THEN <<v>>
    ELSE IF FLeq(v, Head(s)) THEN <<v>> \o s
    ELSE <<Head(s)>> \o Insert(v, Tail(s))

\* ascending order of a NaN-free sequence
RECURSIVE Sort(_)
Sort(vals) == IF vals = <<>> THEN <<>> ELSE Insert(Head(vals), Sort(Tail(vals)))

RECURSIVE Sum(_)
Sum(vals) == IF vals = <<>> THEN IntVal(0) ELSE FAdd(Head(vals), Sum(Tail(vals)))

PercentileLower(vals, q) ==
    IF HasNaN(vals) THEN NaN
    ELSE Sort(vals)[(q * (Len(vals) - 1)) \div 100 + 1]

\* np.percentile(vals, q), default linear interpolation at rank q/100*(n-1);
\* NaN when any entry is NaN
Percentile(vals, q) ==
    IF HasNaN(vals) THEN NaN
    ELSE LET s == Sort(vals)
             pos == q * (Len(vals) - 1)
             k == pos \div 100
             r == pos % 100
         IN  IF r = 0 THEN s[k + 1]
             ELSE FAdd(s[k + 1], FMul(Frac(r, 100), FSub(s[k + 2], s[k + 1])))

\* np.median(vals); NaN when any entry is NaN
Median(vals) ==
    IF HasNaN(vals) THEN NaN
    ELSE LET s == Sort(vals)
             n == Len(vals)
         IN  IF n % 2 = 1 THEN s[(n + 1) \div 2]
             ELSE FMul(FAdd(s[n \div 2], s[n \div 2 + 1]), Frac(1, 2))

MeanOverAll(filtered, vals) == FMul(Sum(filtered), Frac(1, Len(vals)))

\* np.mean(filtered)
Mean(filtered, vals) == FMul(Sum(filtered), Frac(1, Len(filtered)))

FenceInverted(Q, IQR, sign) == FSub(Q, FMul(Frac(3 * sign, 2), IQR))

\* Q + sign * 1.5 * IQR
Fence(Q, IQR, sign) == FAdd(Q, FMul(Frac(3 * sign, 2), IQR))

\* the values robust_mean aggregates: a list or ndarray is taken as it is,
\* a Series loses its missing entries
InputVals(row) ==
    IF row.type = "list" THEN row.vals ELSE dropna(row.vals)

\* robust_mean with its local variables; row is [type, vals]
robust_mean_locals(row) ==
    LET vals == InputVals(row)
        none == [vals |-> vals, Q1 |-> NaN, Q3 |-> NaN, lower_fence |-> NaN,
                 upper_fence |-> NaN, filtered |-> <<>>, ret |-> NaN]
    IN  IF Len(vals) = 0 THEN none
        ELSE LET Q1 == Percentile(vals, 25)
                 Q3 == Percentile(vals, 75)
                 IQR == FSub(Q3, Q1)
                 lower_fence == Fence(Q1, IQR, -1)
                 upper_fence == Fence(Q3, IQR, 1)
                 filtered == SelectSeq(vals,
                                LAMBDA v : FLeq(lower_fence, v) /\ FLeq(v, upper_fence))
             IN  [vals |-> vals, Q1 |-> Q1, Q3 |-> Q3,
                  lower_fence |-> lower_fence, upper_fence |-> upper_fence,
                  filtered |-> filtered,
                  ret |-> IF Len(filtered) = 0 THEN Median(vals)
                          ELSE Mean(filtered, vals)]

robust_mean(row) == robust_mean_locals(row).ret

ListRow(vals) == [type |-> "list", vals |-> vals]
SeriesRow(vals) == [type |-> "Series", vals |-> vals]

\* ------------------------------------------------------------ timestamps
\* a timestamp in Europe/Rome: civil fields plus fold, which tells apart the
\* two instants of a repeated local hour (0 = first, summer time)
TS(y, m, d, h, f) == [year |-> y, month |-> m, day |-> d, hour |-> h, fold |-> f]

\* local hours that occur twice (end of summer time, 02:00) on 27 October
RepeatedHours == {<<y, 10, 27, 2>> : y \in {1996, 2002, 2013, 2019, 2024}}

\* the instant a civil timestamp denotes: fold matters only in a repeated hour
Localize(ts) ==
    IF ts.fold = 0 \/ <<ts.year, ts.month, ts.day, ts.hour>> \in RepeatedHours THEN ts
    ELSE [ts EXCEPT !.fold = 0]

IsLeap(y) == (y % 4 = 0 /\ y % 100 # 0) \/ y % 400 = 0

\* date.replace(year = y) raises ValueError when the day does not exist in y
Replaceable(date, y) == ~(date.month = 2 /\ date.day = 29 /\ ~IsLeap(y))

replace_year(date, y) == [date EXCEPT !.year = y]

\* strftime('%Y-%m-%d %H:%M'): the offset (fold) is not printed
strftime(ts) == <<ts.year, ts.month, ts.day, ts.hour, 0>>

\* tuple(df["time"].dt.strftime(...).tolist())
CacheKey(time) == [i \in 1..Len(time) |-> strftime(time[i])]

\* .dt.date
DateOf(ts) == <<ts.year, ts.month, ts.day>>

\* ---------------------------------------------------------------- get_past
\* pdf.loc[pdf["time"] == var_date, "temperature_2m"]; pdf maps the instant of
\* each historical row to its value
Match(pdf, var_date) ==
    LET instant == Localize(var_date)
    IN  IF instant \in DOMAIN pdf THEN <<pdf[instant]>> ELSE <<>>

\* the list get_past builds for the years y .. EndYear - 1
RECURSIVE PastValues(_, _, _)
PastValues(date, pdf, y) ==
    IF y >= EndYear THEN <<>>
    ELSE LET match == Match(pdf, replace_year(date, y))
         IN  (IF match # <<>> THEN <<match[1]>> ELSE <<>>)
                 \o PastValues(date, pdf, y + 1)

\* whether get_past(date, pdf) raises: date.replace fails in some year
get_past_raises(date) == \E y \in FirstYear..(EndYear - 1) : ~Replaceable(date, y)

\* get_past(date, pdf): raised, or the returned value
get_past(date, pdf) ==
    IF get_past_raises(date)
    THEN [raised |-> TRUE, ret |-> NaN]
    ELSE [raised |-> FALSE, ret |-> robust_mean(ListRow(PastValues(date, pdf, FirstYear)))]

\* the loop "for d in df['time']: past_values.append(get_past(d, pdf_past))"
\* from position i on: the values appended, the timestamps get_past was
\* called on, and whether a call raised (which ends the loop)
RECURSIVE BaselineLoop(_, _, _, _)
BaselineLoop(time, pdf, i, past_values) ==
    IF i > Len(time)
    THEN [raised |-> FALSE, past_values |-> past_values, scanned |-> time]
    ELSE IF get_past_raises(time[i])
    THEN [raised |-> TRUE, past_values |-> past_values, scanned |-> SubSeq(time, 1, i)]
    ELSE BaselineLoop(time, pdf, i + 1, Append(past_values, get_past(time[i], pdf).ret))

\* --------------------------------------------------------------- get_series
NoColumn == [present |-> FALSE, vals |-> <<>>]
Column(vals) == [present |-> TRUE, vals |-> vals]

ValidIfPresent(df, index) ==
    SelectSeq([s \in 1..NumSources |-> s],
              LAMBDA s : df.cols[index][s].present)

\* valid_field_names(index): the sources whose column of variable index is
\* in df and has at least one non-missing value
valid_field_names(df, index) ==
    SelectSeq([s \in 1..NumSources |-> s],
              LAMBDA s : /\ df.cols[index][s].present
                         /\ \E t \in 1..Len(df.time) : ~IsNaN(df.cols[index][s].vals[t]))

\* df[valid_fields].apply(robust_mean, axis=1)
RowMeans(df, index, valid_fields) ==
    [t \in 1..Len(df.time) |->
        robust_mean(SeriesRow([j \in 1..Len(valid_fields) |->
                                   df.cols[index][valid_fields[j]].vals[t]]))]

CacheHitNever(cache, key) == FALSE

\* cache_key in past_values_cache
CacheHit(cache, key) == key \in DOMAIN cache

CacheStoreSkipped(cache, key, series) == cache

\* past_values_cache[cache_key] = past_values
CacheStore(cache, key, series) == (key :> series) @@ cache

\* the baseline branch of get_series (serie_index == 0)
Baseline(time, pdf, cache) ==
    LET cache_key == CacheKey(time)
    IN  IF CacheHit(cache, cache_key)
        THEN [raised |-> FALSE, past_values |-> cache[cache_key],
              scanned |-> <<>>, cache |-> cache]
        ELSE LET r == BaselineLoop(time, pdf, 1, <<>>)
             IN  [raised |-> r.raised, past_values |-> r.past_values,
                  scanned |-> r.scanned,
                  cache |-> IF r.raised THEN cache
                            ELSE CacheStore(cache, cache_key, r.past_values)]

\* current_combined_means[name] = series
DictSet(d, name, series) == (name :> series) @@ d

\* ------------------------------------------------- generate_forecast_pages
\* df["time"].dt.date.unique(): the dates in order of first appearance
RECURSIVE unique_days(_)
unique_days(time) ==
    IF time = <<>> THEN <<>>
    ELSE LET d == DateOf(Head(time))
         IN  <<d>> \o unique_days(SelectSeq(Tail(time), LAMBDA t : DateOf(t) # d))

\* positions of the rows of df whose date is day
RECURSIVE RowsOf(_, _, _)
RowsOf(time, day, i) ==
    IF i > Len(time) THEN <<>>
    ELSE (IF DateOf(time[i]) = day THEN <<i>> ELSE <<>>) \o RowsOf(time, day, i + 1)

Take(col, rows) ==
    IF col.present THEN Column([j \in 1..Len(rows) |-> col.vals[rows[j]]]) ELSE NoColumn

\* df[df["time"].dt.date == day].copy()
DailyFrame(df, day) ==
    LET rows == RowsOf(df.time, day, 1)
    IN  [time |-> [j \in 1..Len(rows) |-> df.time[rows[j]]],
         cols |-> [f \in DOMAIN df.cols |->
                      [s \in DOMAIN df.cols[f] |-> Take(df.cols[f][s], rows)]],
         mean |-> Take(df.mean, rows),
         past |-> Take(df.past, rows)]

\* -------------------------------------------------------------------- state
VARIABLES
    row,        \* argument of the robust_mean call under test
    called,     \* whether robust_mean has run on row
    locals,     \* local variables and return value of that call
    pdf_past,   \* PDF_PAST: instant of a historical row -> its temperature_2m
    past_values_cache,      \* PAST_VALUES_CACHE: cache key -> baseline series
    pc,         \* "idle", "series", "done" or "raised"
    loc,        \* position in LOCATIONS of the location being generated
    df,         \* the location's forecast frame: time, cols, mean, past
    daily_df,   \* the frame of the current day page
    page,       \* 0 for the overview page, k for the k-th day page
    serie_index,            \* next variable to pass to get_series
    current_combined_means, \* the page's bundle: name -> series
    last,       \* history: the latest get_series call
    served      \* history: timestamp axis -> baseline first returned for it

aggvars == <<row, called, locals>>
runvars == <<pdf_past, past_values_cache, pc, loc, df, daily_df, page,
             serie_index, current_combined_means, last, served>>
vars == <<row, called, locals, pdf_past, past_values_cache, pc, loc, df,
          daily_df, page, serie_index, current_combined_means, last, served>>

NoLocals == [vals |-> <<>>, Q1 |-> NaN, Q3 |-> NaN, lower_fence |-> NaN,
             upper_fence |-> NaN, filtered |-> <<>>, ret |-> NaN]

NoFrame == [time |-> <<>>, cols |-> <<>>, mean |-> NoColumn, past |-> NoColumn]

NoCall == [page |-> -1, serie_index |-> -1, time |-> <<>>, raised |-> FALSE,
           scanned |-> <<>>, past_values |-> <<>>, earlier |-> {}]

EmptyDict == <<>>

\* ------------------------------------------------------------------- inputs
SampleValues == {NaN} \cup {IntVal(v) : v \in -1..MaxVal}

RECURSIVE SeqsUpTo(_, _)
SeqsUpTo(S, n) ==
    IF n = 0 THEN {<<>>}
    ELSE LET shorter == SeqsUpTo(S, n - 1)
         IN  shorter \cup {Append(s, v) : s \in {t \in shorter : Len(t) = n - 1}, v \in S}

Ints(s) == [i \in 1..Len(s) |-> IntVal(s[i])]

ExampleV == Ints(<<1, 2, 3, 4, 5, 100>>)
ExampleBucket == Ints(<<10, 11, 9, 50, 12, 13, 9, 11, 10, 12>>)

AggInputs == SeqsUpTo(SampleValues, MaxLen) \cup {ExampleV, ExampleBucket}

\* hourly stretches of forecast time: across 29 February, across the repeated
\* hour at the end of summer time, and across an ordinary midnight
Stretches ==
    { <<TS(2024, 2, 28, 23, 0), TS(2024, 2, 29, 0, 0), TS(2024, 2, 29, 1, 0)>>,
      <<TS(2024, 10, 27, 1, 0), TS(2024, 10, 27, 2, 0), TS(2024, 10, 27, 2, 1)>>,
      <<TS(2024, 10, 27, 23, 0), TS(2024, 10, 28, 0, 0), TS(2024, 10, 28, 1, 0)>> }

\* the timestamp axes a forecast document can carry
Axes ==
    UNION { { SubSeq(s, i, j) : j \in { k \in i..Len(s) : k - i + 1 <= MaxAxisLen } } :
            s \in Stretches, i \in 1..3 }

HistRow(y, m, d, h, f, v) == [time |-> TS(y, m, d, h, f), temperature_2m |-> v]

\* PDF_PAST as loaded from the rows of historical.json (one row per instant)
HistoricalFrame(rows) ==
    [t \in {rows[i].time : i \in 1..Len(rows)} |->
        rows[CHOOSE i \in 1..Len(rows) : rows[i].time = t].temperature_2m]

\* a record with samples in three of the 51 years for the calendar hours of
\* the stretches (29 February only in the leap year 1996)
HistoryDense ==
    << HistRow(1996, 2, 28, 23, 0, IntVal(4)),  HistRow(1996, 2, 29, 0, 0, IntVal(3)),
       HistRow(1996, 10, 27, 1, 0, IntVal(10)), HistRow(1996, 10, 27, 2, 0, IntVal(9)),
       HistRow(1996, 10, 27, 2, 1, IntVal(8)),
       HistRow(1996, 10, 27, 23, 0, IntVal(6)), HistRow(1996, 10, 28, 0, 0, IntVal(5)),
       HistRow(2019, 2, 28, 23, 0, IntVal(2)),
       HistRow(2019, 10, 27, 1, 0, IntVal(12)), HistRow(2019, 10, 27, 2, 0, IntVal(11)),
       HistRow(2019, 10, 27, 2, 1, IntVal(9)),
       HistRow(2019, 10, 27, 23, 0, IntVal(8)), HistRow(2019, 10, 28, 0, 0, IntVal(7)),
       HistRow(2023, 2, 28, 23, 0, IntVal(6)),
       HistRow(2023, 10, 27, 1, 0, IntVal(11)), HistRow(2023, 10, 27, 2, 0, IntVal(10)),
       HistRow(2023, 10, 27, 23, 0, IntVal(7)), HistRow(2023, 10, 28, 0, 0, IntVal(3)),
       HistRow(2023, 10, 28, 1, 0, IntVal(2)) >>

\* a record with gaps: a missing value (null) among the samples of one hour,
\* and no sample at all for 29 February and 28 October
HistoryGappy ==
    << HistRow(1996, 2, 28, 23, 0, IntVal(4)),
       HistRow(1996, 10, 27, 1, 0, IntVal(10)), HistRow(2019, 10, 27, 1, 0, NaN),
       HistRow(2023, 10, 27, 1, 0, IntVal(12)),
       HistRow(1996, 10, 27, 2, 0, IntVal(9)),  HistRow(1996, 10, 27, 2, 1, IntVal(5)),
       HistRow(2023, 10, 27, 23, 0, IntVal(7)) >>

Histories == {HistoricalFrame(HistoryDense), HistoricalFrame(HistoryGappy)}

\* the value model source s forecasts for variable f
ModelValue(f, s) == IntVal(10 * f + s)

\* what a source can deliver for a variable over an axis of n hours: no
\* column, a column of missing values, a value in the first hour only, a
\* value in every hour
Shapes == {"absent", "missing", "head", "full"}

ColumnOf(shape, f, s, n) ==
    IF shape = "absent" THEN NoColumn
    ELSE Column([t \in 1..n |->
                    IF shape = "full" \/ (shape = "head" /\ t = 1)
                    THEN ModelValue(f, s) ELSE NaN])

\* the frame loaded (after the start-hour filter) for axis a and a layout
\* giving the shape of every (variable, source) column
Frame(a, layout) ==
    [time |-> a,
     cols |-> [f \in 0..(NumFields - 1) |->
                  [s \in 1..NumSources |-> ColumnOf(layout[f][s], f, s, Len(a))]],
     mean |-> NoColumn,
     past |-> NoColumn]

\* every axis with every layout of columns
ForecastFrames ==
    { Frame(a, layout) :
        a \in Axes, layout \in [0..(NumFields - 1) -> [1..NumSources -> Shapes]] }

\* every axis with the layouts in which all columns have the same shape
UniformFrames ==
    { Frame(a, [f \in 0..(NumFields - 1) |-> [s \in 1..NumSources |-> shape]]) :
        a \in Axes, shape \in Shapes }

\* --------------------------------------------------------- robust_mean alone
InitAgg ==
    /\ row \in {ListRow(v) : v \in AggInputs} \cup {SeriesRow(v) : v \in AggInputs}
    /\ called = FALSE
    /\ locals = NoLocals
    /\ pdf_past = <<>>
    /\ past_values_cache = EmptyDict
    /\ pc = "done"
    /\ loc = 0
    /\ df = NoFrame
    /\ daily_df = NoFrame
    /\ page = 0
    /\ serie_index = 0
    /\ current_combined_means = EmptyDict
    /\ last = NoCall
    /\ served = EmptyDict

Aggregate ==
    /\ ~called
    /\ called' = TRUE
    /\ locals' = robust_mean_locals(row)
    /\ UNCHANGED row
    /\ UNCHANGED runvars

NextAgg == Aggregate

SpecAgg == InitAgg /\ [][NextAgg]_vars

\* ------------------------------------------------------------ the program
\* __main__ up to the loop over LOCATIONS
Init ==
    /\ row = ListRow(<<>>)
    /\ called = FALSE
    /\ locals = NoLocals
    /\ pdf_past \in Histories
    /\ past_values_cache = EmptyDict
    /\ pc = "idle"
    /\ loc = 1
    /\ df = NoFrame
    /\ daily_df = NoFrame
    /\ page = 0
    /\ serie_index = 0
    /\ current_combined_means = EmptyDict
    /\ last = NoCall
    /\ served = EmptyDict

\* generate_forecast_pages up to the overview loop: load one of frames
LoadFrame(frames) ==
    /\ pc = "idle"
    /\ df' \in frames
    /\ daily_df' = NoFrame
    /\ page' = 0
    /\ serie_index' = 0
    /\ current_combined_means' = EmptyDict
    /\ pc' = "series"
    /\ UNCHANGED <<loc, pdf_past, past_values_cache, last, served>>
    /\ UNCHANGED aggvars

\* the call of generate_forecast_pages for the next of LOCATIONS
StartLocation ==
    /\ loc <= NumLocations
    /\ LoadFrame(UniformFrames)

\* a call of generate_forecast_pages on its own, over every column layout
StartPages == LoadFrame(ForecastFrames)

\* the frame get_series is called with on the current page
PageFrame == IF page = 0 THEN df ELSE daily_df

\* one call get_series(frame, serie_index, current_combined_means, ...):
\* b is the outcome of the baseline branch, mean the new df["mean"]
GetSeries ==
    /\ pc = "series"
    /\ serie_index < NumFields
    /\ \E b \in { IF serie_index = 0
                  THEN Baseline(PageFrame.time, pdf_past, past_values_cache)
                  ELSE [raised |-> FALSE, past_values |-> <<>>, scanned |-> <<>>,
                        cache |-> past_values_cache] },
          valid_fields \in { valid_field_names(PageFrame, serie_index) } :
       \E mean \in { IF valid_fields # <<>>
                     THEN RowMeans(PageFrame, serie_index, valid_fields)
                     ELSE <<>> } :
        LET frame == PageFrame
            call == [page |-> page, serie_index |-> serie_index, time |-> frame.time,
                     raised |-> b.raised, scanned |-> b.scanned,
                     past_values |-> b.past_values, earlier |-> DOMAIN served]
        IN  IF b.raised
            THEN /\ pc' = "raised"
                 /\ last' = call
                 /\ UNCHANGED <<past_values_cache, df, daily_df, serie_index,
                                current_combined_means, served>>
            ELSE LET with_past == IF serie_index = 0
                                  THEN DictSet(current_combined_means,
                                               PAST_MEAN_LABEL, b.past_values)
                                  ELSE current_combined_means
                     after == [frame EXCEPT
                                 !.mean = IF valid_fields # <<>> THEN Column(mean) ELSE @,
                                 !.past = IF serie_index = 0 THEN Column(b.past_values)
                                          ELSE @]
                 IN  /\ pc' = "series"
                     /\ past_values_cache' = b.cache
                     /\ current_combined_means' =
                           IF valid_fields # <<>>
                           THEN DictSet(with_past, serie_names_it[serie_index + 1], mean)
                           ELSE with_past
                     /\ df' = IF page = 0 THEN after ELSE df
                     /\ daily_df' = IF page = 0 THEN daily_df ELSE after
                     /\ serie_index' = serie_index + 1
                     /\ last' = call
                     /\ served' = IF serie_index = 0 /\ frame.time \notin DOMAIN served
                                  THEN (frame.time :> b.past_values) @@ served
                                  ELSE served
    /\ UNCHANGED <<loc, page, pdf_past>>
    /\ UNCHANGED aggvars

\* the page's loop over the variables has ended and a day page follows
NextPage ==
    /\ pc = "series"
    /\ serie_index = NumFields
    /\ page < Len(unique_days(df.time))
    /\ page' = page + 1
    /\ daily_df' = DailyFrame(df, unique_days(df.time)[page + 1])
    /\ current_combined_means' = EmptyDict
    /\ serie_index' = 0
    /\ UNCHANGED <<pc, loc, df, pdf_past, past_values_cache, last, served>>
    /\ UNCHANGED aggvars

\* the last day page is written and generate_forecast_pages returns, which
\* ends the life of its frames and bundle
Return ==
    /\ pc = "series"
    /\ serie_index = NumFields
    /\ page = Len(unique_days(df.time))
    /\ df' = NoFrame
    /\ daily_df' = NoFrame
    /\ page' = 0
    /\ serie_index' = 0
    /\ current_combined_means' = EmptyDict
    /\ last' = NoCall
    /\ UNCHANGED <<pdf_past, past_values_cache, served>>
    /\ UNCHANGED aggvars

\* back in the loop over LOCATIONS
EndLocation ==
    /\ Return
    /\ loc' = loc + 1
    /\ pc' = IF loc = NumLocations THEN "done" ELSE "idle"

\* the single call has returned
EndPages ==
    /\ Return
    /\ pc' = "done"
    /\ UNCHANGED loc

Next == StartLocation \/ GetSeries \/ NextPage \/ EndLocation

Spec == Init /\ [][Next]_vars

\* ------------------------------------- one call of generate_forecast_pages
\* the arguments of the call: the dense historical record, an empty cache
InitPages == Init /\ pdf_past = HistoricalFrame(HistoryDense)

NextPages == StartPages \/ GetSeries \/ NextPage \/ EndPages

SpecPages == InitPages /\ [][NextPages]_vars

\* ====================================================== properties
\* ---- robust_mean, stated with integer arithmetic on the input alone
\* the inputs the aggregation claims speak of: non-empty, nothing missing
Clean == called /\ row.vals # <<>> /\ ~HasNaN(row.vals)

\* row.vals[i] as an integer (enumerated inputs are integers)
V(i) == row.vals[i].num

N == Len(row.vals)

\* the value of 0-based rank k in ascending order
Ranked(k) ==
    V(CHOOSE i \in 1..N :
        /\ Cardinality({j \in 1..N : V(j) < V(i)}) <= k
        /\ Cardinality({j \in 1..N : V(j) <= V(i)}) > k)

\* 100 times the p-th percentile by linear interpolation at rank p/100*(n-1)
Pct100(p) ==
    LET k == (p * (N - 1)) \div 100
        r == (p * (N - 1)) % 100
    IN  IF r = 0 THEN 100 * Ranked(k)
        ELSE (100 - r) * Ranked(k) + r * Ranked(k + 1)

\* v lies in [Q1 - 1.5*IQR, Q3 + 1.5*IQR], both sides scaled by 200
InFence(v) ==
    /\ 5 * Pct100(25) - 3 * Pct100(75) <= 200 * v
    /\ 200 * v <= 5 * Pct100(75) - 3 * Pct100(25)

Kept == {i \in 1..N : InFence(V(i))}

RECURSIVE SumKept(_)
SumKept(S) == IF S = {} THEN 0 ELSE LET i == CHOOSE i \in S : TRUE
                                    IN  V(i) + SumKept(S \ {i})

\* x is the rational n/d
Is(x, n, d) == x.den > 0 /\ x.num * d = n * x.den

\* the result is the arithmetic mean of exactly the values inside the fence,
\* the quartiles being the interpolated percentiles
FenceMean ==
    /\ Is(locals.Q1, Pct100(25), 100)
    /\ Is(locals.Q3, Pct100(75), 100)
    /\ locals.filtered = SelectSeq(row.vals, LAMBDA v : InFence(v.num))
    /\ Kept # {}
    /\ Is(locals.ret, SumKept(Kept), Cardinality(Kept))

BucketCase ==
    /\ Len(locals.filtered) = 9
    /\ \A i \in 1..9 : locals.filtered[i] # IntVal(50)
    /\ Is(locals.ret, 97, 9)

\* C4 as stated: robust_mean is the mean of the values inside the inclusive
\* fence; V = [1,2,3,4,5,100] has Q1 = 2.25 and Q3 = 4.25, loses 100 and gives
\* 3; the bucket [10,11,9,50,12,13,9,11,10,12] loses 50 and gives 97/9
C4_AsStated ==
    Clean =>
        /\ FenceMean
        /\ row.vals = ExampleV =>
              /\ Is(locals.Q1, 9, 4)
              /\ Is(locals.Q3, 17, 4)
              /\ locals.filtered = Ints(<<1, 2, 3, 4, 5>>)
              /\ Is(locals.ret, 3, 1)
        /\ row.vals = ExampleBucket => BucketCase

\* C4 amended: the same, with Q3 = 4.75 for V = [1,2,3,4,5,100]
C4_FenceMean ==
    Clean =>
        /\ FenceMean
        /\ row.vals = ExampleV =>
              /\ Is(locals.Q1, 9, 4)
              /\ Is(locals.Q3, 19, 4)
              /\ locals.filtered = Ints(<<1, 2, 3, 4, 5>>)
              /\ Is(locals.ret, 3, 1)
        /\ row.vals = ExampleBucket => BucketCase

C4_Witness ==
    /\ Clean
    /\ row.vals = ExampleV
    /\ Is(locals.Q3, 19, 4)
    /\ Is(locals.ret, 3, 1)

C10_FilteredNonEmpty == Clean => locals.filtered # <<>>

C10_Witness ==
    /\ Clean
    /\ N >= 4
    /\ Len(locals.filtered) + 1 = N

\* ---- the baseline cache
\* C1: a baseline request whose timestamp sequence was requested before calls
\* get_past for no timestamp and returns the series first returned for it
C1_RepeatServedFromCache ==
    (last.serie_index = 0 /\ last.time \in last.earlier) =>
        /\ ~last.raised
        /\ last.scanned = <<>>
        /\ last.past_values = served[last.time]

C1_Witness ==
    /\ last.serie_index = 0
    /\ last.time \in last.earlier
    /\ last.page = 0
    /\ loc = NumLocations
    /\ Len(last.time) = MaxAxisLen
    /\ \E i \in 1..Len(last.past_values) : ~IsNaN(last.past_values[i])

\* C2 as stated: two requested timestamp sequences of the same length that
\* differ in some position have different cache keys
C2_KeysDiffer ==
    \A a \in DOMAIN served : \A b \in DOMAIN served :
        (Len(a) = Len(b) /\ a # b) => CacheKey(a) # CacheKey(b)

\* C3 as stated: on a day page no get_past call is made for a timestamp of
\* the location's overview axis (whose baseline is already computed)
C3_NoRescan ==
    (last.serie_index = 0 /\ last.page >= 1) =>
        \A i \in 1..Len(last.scanned) : \A j \in 1..Len(df.time) :
            last.scanned[i] # df.time[j]

\* C3 amended: a day page's baseline request calls get_past for none of its
\* timestamps when a sequence with the same formatted timestamps was requested
\* before, and otherwise for every one of its timestamps
C3_RescanUnlessSameKey ==
    (last.serie_index = 0 /\ last.page >= 1) =>
        last.scanned = IF \E a \in last.earlier : CacheKey(a) = CacheKey(last.time)
                       THEN <<>> ELSE last.time

C3_Witness ==
    /\ last.serie_index = 0
    /\ last.page >= 1
    /\ Len(last.time) < Len(df.time)
    /\ last.scanned = last.time
    /\ last.scanned # <<>>

\* ---- get_past
\* no historical row in any year has the calendar hour of ts
NoSample(ts, pdf) ==
    \A t \in DOMAIN pdf :
        ~(t.month = ts.month /\ t.day = ts.day /\ t.hour = ts.hour)

\* C6 as stated: for a timestamp whose calendar hour has no historical sample
\* get_past does not raise and yields NaN; robust_mean of nothing is NaN
C6_EmptyBucketUndefined ==
    /\ robust_mean(ListRow(<<>>)) = NaN
    /\ \A i \in 1..Len(last.scanned) :
          NoSample(last.scanned[i], pdf_past) =>
              /\ i <= Len(last.past_values)
              /\ IsNaN(last.past_values[i])

\* the samples of the calendar hour of ts in the years where its date exists
RECURSIVE ExistingYearValues(_, _, _)
ExistingYearValues(ts, pdf, y) ==
    IF y >= EndYear THEN <<>>
    ELSE (IF Replaceable(ts, y) THEN Match(pdf, replace_year(ts, y)) ELSE <<>>)
            \o ExistingYearValues(ts, pdf, y + 1)

\* C7 as stated: the baseline computation raises for no timestamp; for a
\* 29 February it is the robust mean over the years that have the date
C7_NoException ==
    /\ pc # "raised"
    /\ \A i \in 1..Len(last.scanned) :
          /\ i <= Len(last.past_values)
          /\ last.scanned[i].month = 2 /\ last.scanned[i].day = 29 =>
                last.past_values[i] =
                    robust_mean(ListRow(ExistingYearValues(last.scanned[i],
                                                            pdf_past, FirstYear)))

\* the values the present source columns of variable f hold at position t
RowAt(f, t) ==
    LET present == SelectSeq([s \in 1..NumSources |-> s],
                             LAMBDA s : PageFrame.cols[f][s].present)
    IN  [j \in 1..Len(present) |-> PageFrame.cols[f][present[j]].vals[t]]

\* C9 as stated: at both call sites the result is the robust mean of the
\* input without its missing entries: every baseline value computed by
\* get_past, and every row of the ensemble mean
C9_MissingDropped ==
    /\ \A i \in 1..Len(last.scanned) :
          i <= Len(last.past_values) =>
              last.past_values[i] =
                  robust_mean(ListRow(dropna(PastValues(last.scanned[i],
                                                        pdf_past, FirstYear))))
    /\ pc = "series" =>
          \A f \in 0..(serie_index - 1) :
              serie_names_it[f + 1] \in DOMAIN current_combined_means =>
                  \A t \in 1..Len(PageFrame.time) :
                      current_combined_means[serie_names_it[f + 1]][t] =
                          robust_mean(ListRow(dropna(RowAt(f, t))))

\* ---- the ensemble bundle
\* every source column of variable f is absent or all missing over the page
NoData(f) ==
    \A s \in 1..NumSources :
        \/ ~PageFrame.cols[f][s].present
        \/ \A t \in 1..Len(PageFrame.time) : IsNaN(PageFrame.cols[f][s].vals[t])

\* C8: a variable processed on the page whose source columns are all absent
\* or all missing over the page's range has no entry in the page's bundle
C8_NoEntryWithoutData ==
    pc = "series" =>
        \A f \in 0..(serie_index - 1) :
            NoData(f) => serie_names_it[f + 1] \notin DOMAIN current_combined_means

C8_Witness ==
    /\ pc = "series"
    /\ serie_index = 2
    /\ page >= 1
    /\ ~NoData(0)
    /\ NoData(1)
    /\ \E s \in 1..NumSources : \E t \in 1..Len(df.time) :
          df.cols[1][s].present /\ ~IsNaN(df.cols[1][s].vals[t])
    /\ PageFrame.mean.present
    /\ serie_names_it[1] \in DOMAIN current_combined_means
    /\ serie_names_it[2] \notin DOMAIN current_combined_means
====
